---- MODULE Spec2Model ----
(***************************************************************************)
(* Model of DolphinQt2's HotkeyScheduler                                   *)
(* (Source/Core/DolphinQt2/HotkeyScheduler.cpp).                            *)
(*                                                                         *)
(* A controller thread calls Start() and Stop(); the background thread     *)
(* runs HotkeyScheduler::Run, one loop iteration per tick.  Every call     *)
(* that leaves the scheduler (a Qt signal, Core::DoFrameStep, an OSD       *)
(* message, a write of a setting that is not tracked as a variable) is     *)
(* appended to `emitted` as a pair <<name, argument>>.  Hotkey ids are     *)
(* pairs <<enumerator, offset>>, the offset being the `+ i` of the slot    *)
(* loop.  Emulation speed is kept in integer hundredths.                   *)
(***************************************************************************)
EXTENDS Integers, Sequences, FiniteSets, TLC

VARIABLES
  \* HotkeyScheduler members and the two threads
  m_stop_requested,        \* Common::Flag m_stop_requested
  joinable,                \* m_thread.joinable()
  ctl,                     \* controller thread: "idle" or inside Stop()
  runPc,                   \* position of the Run thread
  run_loops,               \* number of Run contexts that were spawned and have not exited
  terminated,              \* std::terminate() was called
  \* HotkeyManagerEmu
  bound,                   \* hotkeys that have a binding (fixed by LoadConfig)
  consume,                 \* detector variant: an edge is used up by its first query
  status,                  \* s_hotkey: the sample taken by the last GetStatus()
  down,                    \* s_hotkeyDown: previous sample per hotkey
  \* statics of HandleFrameskipHotkeys
  frame_step_count,
  frame_step_delay,
  frame_step_delay_count,
  frame_step_hold,
  \* settings written by Run
  m_EmulationSpeed,        \* SConfig::m_EmulationSpeed, in hundredths
  stereo_mode,             \* Config::GFX_STEREO_MODE
  post_shader,             \* Config::GFX_ENHANCE_POST_SHADER
  stereo_depth,            \* Config::GFX_STEREO_DEPTH
  stereo_convergence,      \* Config::GFX_STEREO_CONVERGENCE
  fl_speed,                \* static fl_speed of Run, as the exponent k of 1.1^k
  \* settings read by Run
  bEnableDebugging,
  bWii,
  m_bt_passthrough_enabled,
  \* what the last tick did
  emitted,                 \* calls made by the current / last loop iteration, in order
  gate,                    \* which way the last iteration went through the gates
  step_track,              \* a frame-advance hold that began at frame_step_count = 0 is in progress
  step_n,                  \* step commands of that hold so far (counted up to 3)
  step_since,              \* processed ticks since its last step command
  step_gap,                \* distance in ticks between its two latest step commands
  toggle_hist              \* stereo toggles fired since the group was last Off without dubois

vars == << m_stop_requested, joinable, ctl, runPc, run_loops, terminated,
           bound, consume, status, down,
           frame_step_count, frame_step_delay, frame_step_delay_count, frame_step_hold,
           m_EmulationSpeed, stereo_mode, post_shader, stereo_depth, stereo_convergence,
           fl_speed, bEnableDebugging, bWii, m_bt_passthrough_enabled,
           emitted, gate, step_track, step_n, step_since, step_gap, toggle_hist >>

----------------------------------------------------------------------------
\* Program constants

MAX_FRAME_SKIP_DELAY == 60
FRAME_STEP_DELAY == 30
NUM_STATES == 10
DUBOIS_ALGORITHM_SHADER == "dubois"

\* Bounds of the model

\* at most this many hotkeys are asserted in one sample
MaxPressed == 2
\* emulation speed (hundredths) is not driven above this
MaxSpeed == 130
\* stereo depth is not driven below -MaxDepthDrop
MaxDepthDrop == 2
\* the freelook speed exponent stays within -MaxFl .. MaxFl
MaxFl == 2

Min(a, b) == IF a < b THEN a ELSE b
Max(a, b) == IF a > b THEN a ELSE b
Range(f) == {f[i] : i \in DOMAIN f}

----------------------------------------------------------------------------
\* Hotkey ids

HK(n) == <<n, 0>>
HKi(n, i) == <<n, i>>

StereoModes == {"Off", "SBS", "TAB", "Anaglyph", "Nvidia3DVision"}
CoreStates == {"Uninitialized", "Paused", "Running", "Stopping"}

FrameKeys == {HK("HK_FRAME_ADVANCE"), HK("HK_FRAME_ADVANCE_INCREASE_SPEED"),
              HK("HK_FRAME_ADVANCE_DECREASE_SPEED"), HK("HK_FRAME_ADVANCE_RESET_SPEED")}
StereoKeys == {HK("HK_TOGGLE_STEREO_SBS"), HK("HK_TOGGLE_STEREO_TAB"),
               HK("HK_TOGGLE_STEREO_ANAGLYPH"), HK("HK_TOGGLE_STEREO_3DVISION")}
SpeedKeys == {HK("HK_DECREASE_EMULATION_SPEED"), HK("HK_INCREASE_EMULATION_SPEED")}
SlotBases == {"HK_LOAD_STATE_SLOT_1", "HK_SAVE_STATE_SLOT_1",
              "HK_LOAD_LAST_STATE_1", "HK_SELECT_STATE_SLOT_1"}
SlotFamily(i) == {HKi(b, i) : b \in SlotBases}
SlotKeys == UNION {SlotFamily(i) : i \in 0 .. NUM_STATES - 1}
HeadKeys == {HK("HK_OPEN"), HK("HK_EJECT_DISC"), HK("HK_CHANGE_DISC"), HK("HK_FULLSCREEN")}
ControlKeys == FrameKeys \cup
  {HK("HK_REFRESH_LIST"), HK("HK_PLAY_PAUSE"), HK("HK_STOP"), HK("HK_RESET"),
   HK("HK_SCREENSHOT"), HK("HK_EXIT"), HK("HK_START_RECORDING"),
   HK("HK_EXPORT_RECORDING"), HK("HK_READ_ONLY_MODE")}
DebugKeys == {HK("HK_STEP"), HK("HK_STEP_OVER"), HK("HK_STEP_OUT"), HK("HK_SKIP"),
              HK("HK_SHOW_PC"), HK("HK_SET_PC"), HK("HK_BP_TOGGLE"), HK("HK_BP_ADD")}
WiimoteKeys == {HK("HK_WIIMOTE1_CONNECT"), HK("HK_WIIMOTE2_CONNECT"),
                HK("HK_WIIMOTE3_CONNECT"), HK("HK_WIIMOTE4_CONNECT"),
                HK("HK_BALANCEBOARD_CONNECT")}
GraphicsKeys == {HK("HK_VOLUME_DOWN"), HK("HK_VOLUME_UP"), HK("HK_VOLUME_TOGGLE_MUTE"),
                 HK("HK_INCREASE_IR"), HK("HK_DECREASE_IR"), HK("HK_TOGGLE_CROP"),
                 HK("HK_TOGGLE_AR"), HK("HK_TOGGLE_EFBCOPIES"), HK("HK_TOGGLE_XFBCOPIES"),
                 HK("HK_TOGGLE_IMMEDIATE_XFB"), HK("HK_TOGGLE_FOG"),
                 HK("HK_TOGGLE_DUMPTEXTURES"), HK("HK_TOGGLE_TEXTURES")}
SelectedSlotKeys == {HK("HK_SAVE_STATE_SLOT_SELECTED"), HK("HK_LOAD_STATE_SLOT_SELECTED")}
DepthKeys == {HK("HK_DECREASE_DEPTH"), HK("HK_INCREASE_DEPTH"),
              HK("HK_DECREASE_CONVERGENCE"), HK("HK_INCREASE_CONVERGENCE")}
FreelookKeys == {HK("HK_FREELOOK_DECREASE_SPEED"), HK("HK_FREELOOK_INCREASE_SPEED"),
                 HK("HK_FREELOOK_RESET_SPEED"), HK("HK_FREELOOK_UP"), HK("HK_FREELOOK_DOWN"),
                 HK("HK_FREELOOK_LEFT"), HK("HK_FREELOOK_RIGHT"), HK("HK_FREELOOK_ZOOM_IN"),
                 HK("HK_FREELOOK_ZOOM_OUT"), HK("HK_FREELOOK_RESET")}
UndoKeys == {HK("HK_SAVE_FIRST_STATE"), HK("HK_UNDO_LOAD_STATE"), HK("HK_UNDO_SAVE_STATE")}
MainKeys == {HK("HK_FULLSCREEN"), HKi("HK_LOAD_STATE_SLOT_1", 3),
             HK("HK_UNDO_LOAD_STATE"), HK("HK_DECREASE_DEPTH")}

\* the samples the input layer can deliver: sets of at most n bound hotkeys
RECURSIVE KeySets(_, _)
KeySets(B, n) == IF n = 0 THEN {{}}
                 ELSE LET P == KeySets(B, n - 1) IN P \cup {S \cup {k} : S \in P, k \in B}

----------------------------------------------------------------------------
\* The state one loop iteration works on, as a record

Cur == [status |-> status, down |-> down, consume |-> consume, emitted |-> emitted,
        frame_step_count |-> frame_step_count, frame_step_delay |-> frame_step_delay,
        frame_step_delay_count |-> frame_step_delay_count,
        frame_step_hold |-> frame_step_hold,
        m_EmulationSpeed |-> m_EmulationSpeed, stereo_mode |-> stereo_mode,
        post_shader |-> post_shader, stereo_depth |-> stereo_depth,
        stereo_convergence |-> stereo_convergence, fl_speed |-> fl_speed,
        bEnableDebugging |-> bEnableDebugging, bWii |-> bWii,
        m_bt_passthrough_enabled |-> m_bt_passthrough_enabled,
        step_track |-> step_track, step_n |-> step_n, step_since |-> step_since,
        step_gap |-> step_gap, toggle_hist |-> toggle_hist]

\* HotkeyManagerEmu::GetStatus(): take a new sample.  In the variant where an
\* edge lasts the whole tick the previous sample is replaced here.
GetStatus(s, keys) ==
  [s EXCEPT !.status = keys, !.down = IF s.consume THEN @ ELSE s.status]

\* HotkeyManagerEmu::IsPressed(id, held): the value returned (a hotkey
\* without a binding is never asserted) ...
IsPressed(s, id, held) == id \in bound /\ id \in s.status /\ (held \/ id \notin s.down)

\* ... and the detector state the query leaves behind
Queried(s, id) ==
  IF id \in bound /\ s.consume
    THEN [s EXCEPT !.down = IF id \in s.status THEN @ \cup {id} ELSE @ \ {id}]
    ELSE s

IsHotkey(s, id, held) == IsPressed(s, id, held)

\* none of the hotkeys K has a binding: every query of one of them returns
\* false and leaves the detector as it is, so a block that does nothing but
\* act on them is skipped as a whole
Idle(K) == K \cap bound = {}

Emit(s, name, arg) == [s EXCEPT !.emitted = Append(@, <<name, arg>>)]

\* `if (IsHotkey(id)) emit name(arg);`
OnHotkey(s, id, name, arg) ==
  IF IsHotkey(s, id, FALSE) THEN Emit(Queried(s, id), name, arg) ELSE Queried(s, id)

\* `if (IsHotkey(id, true)) name(arg);`
OnHeld(s, id, name, arg) ==
  IF IsHotkey(s, id, TRUE) THEN Emit(Queried(s, id), name, arg) ELSE Queried(s, id)

----------------------------------------------------------------------------
\* HandleFrameskipHotkeys

Untracked(s) == [s EXCEPT !.step_track = FALSE, !.step_n = 0, !.step_since = 0, !.step_gap = 0]

\* bookkeeping of the hold in progress: pre is the state on entry, stepped
\* says whether this tick called Core::DoFrameStep
TrackHold(s, pre, stepped) ==
  IF pre.frame_step_count = 0
    THEN [s EXCEPT !.step_track = TRUE, !.step_n = IF stepped THEN 1 ELSE 0,
                   !.step_since = 0, !.step_gap = 0]
  ELSE IF ~pre.step_track THEN s
  ELSE IF stepped
    THEN [s EXCEPT !.step_n = Min(pre.step_n + 1, 3), !.step_gap = pre.step_since + 1,
                   !.step_since = 0]
  ELSE [s EXCEPT !.step_since = pre.step_since + 1]

\* lines 96-97
FrameDelayCount(s) ==
  IF s.frame_step_delay_count < s.frame_step_delay /\ s.frame_step_hold
    THEN [s EXCEPT !.frame_step_delay_count = @ + 1] ELSE s

\* lines 99-103
FrameDoStep(s) ==
  IF (s.frame_step_count = 0 \/ s.frame_step_count = FRAME_STEP_DELAY) /\ ~s.frame_step_hold
    THEN [Emit(s, "DoFrameStep", 0) EXCEPT !.frame_step_hold = TRUE] ELSE s

\* the count taken one past FRAME_STEP_DELAY
FrameCount_OnePast(s) ==
  IF s.frame_step_count < FRAME_STEP_DELAY + 1
    THEN [s EXCEPT !.frame_step_count = @ + 1, !.frame_step_hold = FALSE] ELSE s

\* lines 105-109
FrameCount(s) ==
  IF s.frame_step_count < FRAME_STEP_DELAY
    THEN [s EXCEPT !.frame_step_count = @ + 1, !.frame_step_hold = FALSE] ELSE s

\* the delay counted one tick short
FrameDelayDone_OffByOne(s) ==
  IF s.frame_step_count = FRAME_STEP_DELAY /\ s.frame_step_hold
     /\ s.frame_step_delay_count + 1 >= s.frame_step_delay
    THEN [s EXCEPT !.frame_step_hold = FALSE, !.frame_step_delay_count = 0] ELSE s

\* lines 111-116
FrameDelayDone(s) ==
  IF s.frame_step_count = FRAME_STEP_DELAY /\ s.frame_step_hold
     /\ s.frame_step_delay_count >= s.frame_step_delay
    THEN [s EXCEPT !.frame_step_hold = FALSE, !.frame_step_delay_count = 0] ELSE s

\* lines 94-119: the hold action is asserted
FrameAdvanceHeld(s) ==
  LET a == FrameDelayCount(s)
      b == FrameDoStep(a)
      c == FrameCount(b)
      d == FrameDelayDone(c)
  IN TrackHold(d, s, Len(b.emitted) > Len(a.emitted))

\* lines 120-126: the hold action is not asserted
FrameAdvanceReleased(s) ==
  IF s.frame_step_count > 0
    THEN [s EXCEPT !.frame_step_count = 0, !.frame_step_hold = FALSE,
                   !.frame_step_delay_count = 0]
    ELSE s

FrameDelayIncrease(s) ==
  [s EXCEPT !.frame_step_delay = Min(@ + 1, MAX_FRAME_SKIP_DELAY)]

\* the decrease without its lower clamp
FrameDelayDecrease_NoClamp(s) == [s EXCEPT !.frame_step_delay = @ - 1]

FrameDelayDecrease(s) == [s EXCEPT !.frame_step_delay = Max(@ - 1, 0)]

FrameDelayReset(s) == [s EXCEPT !.frame_step_delay = 1]

HandleFrameskipHotkeys(s) ==
  LET inc == HK("HK_FRAME_ADVANCE_INCREASE_SPEED")
      dec == HK("HK_FRAME_ADVANCE_DECREASE_SPEED")
      rst == HK("HK_FRAME_ADVANCE_RESET_SPEED")
      adv == HK("HK_FRAME_ADVANCE")
      s1 == Queried(s, inc)
      s2 == Queried(s1, dec)
      s3 == Queried(s2, rst)
      s4 == Queried(s3, adv)
  IN IF IsHotkey(s, inc, FALSE) THEN Untracked(FrameDelayIncrease(s1))
     ELSE IF IsHotkey(s1, dec, FALSE) THEN Untracked(FrameDelayDecrease(s2))
     ELSE IF IsHotkey(s2, rst, FALSE) THEN Untracked(FrameDelayReset(s3))
     ELSE IF IsHotkey(s3, adv, TRUE) THEN FrameAdvanceHeld(s4)
     ELSE Untracked(FrameAdvanceReleased(s4))

----------------------------------------------------------------------------
\* HotkeyScheduler::CheckDebuggingHotkeys

CheckDebuggingHotkeys(s) ==
  IF Idle(DebugKeys) THEN s ELSE
  LET a == OnHotkey(s, HK("HK_STEP"), "Step", 0)
      b == OnHotkey(a, HK("HK_STEP_OVER"), "StepOver", 0)
      c == OnHotkey(b, HK("HK_STEP_OUT"), "StepOut", 0)
      d == OnHotkey(c, HK("HK_SKIP"), "Skip", 0)
      e == OnHotkey(d, HK("HK_SHOW_PC"), "ShowPC", 0)
      f == OnHotkey(e, HK("HK_SET_PC"), "Skip", 0)
      g == OnHotkey(f, HK("HK_BP_TOGGLE"), "ToggleBreakpoint", 0)
  IN OnHotkey(g, HK("HK_BP_ADD"), "AddBreakpoint", 0)

----------------------------------------------------------------------------
\* HotkeyScheduler::Run, lines 148-166: up to and including the fullscreen hotkey

BodyHead(s) ==
  IF Idle(HeadKeys) THEN s ELSE
  LET a == OnHotkey(s, HK("HK_OPEN"), "Open", 0)
      b == OnHotkey(a, HK("HK_EJECT_DISC"), "EjectDisc", 0)
      c == OnHotkey(b, HK("HK_CHANGE_DISC"), "ChangeDisc", 0)
  IN OnHotkey(c, HK("HK_FULLSCREEN"), "FullScreenHotkey", 0)

\* whether BodyHead ends in Common::SleepCurrentThread(100)
FullscreenFired(s) ==
  LET a == OnHotkey(s, HK("HK_OPEN"), "Open", 0)
      b == OnHotkey(a, HK("HK_EJECT_DISC"), "EjectDisc", 0)
      c == OnHotkey(b, HK("HK_CHANGE_DISC"), "ChangeDisc", 0)
  IN IsHotkey(c, HK("HK_FULLSCREEN"), FALSE)

\* lines 168-205
BodyControls(s) ==
  IF Idle(ControlKeys) THEN s ELSE
  LET a == OnHotkey(s, HK("HK_REFRESH_LIST"), "RefreshGameListHotkey", 0)
      b == OnHotkey(a, HK("HK_PLAY_PAUSE"), "TogglePauseHotkey", 0)
      c == OnHotkey(b, HK("HK_STOP"), "StopHotkey", 0)
      d == OnHotkey(c, HK("HK_RESET"), "ResetHotkey", 0)
      e == HandleFrameskipHotkeys(d)
      f == OnHotkey(e, HK("HK_SCREENSHOT"), "ScreenShotHotkey", 0)
      g == OnHotkey(f, HK("HK_EXIT"), "ExitHotkey", 0)
      h == OnHotkey(g, HK("HK_START_RECORDING"), "StartRecording", 0)
      i == OnHotkey(h, HK("HK_EXPORT_RECORDING"), "ExportRecording", 0)
  IN OnHotkey(i, HK("HK_READ_ONLY_MODE"), "ToggleReadOnlyMode", 0)

\* lines 207-216: the sync button follows the held state of its hotkey
BodySyncButton(s) ==
  LET id == HK("HK_TRIGGER_SYNC_BUTTON") IN
  IF s.m_bt_passthrough_enabled
    THEN Emit(Queried(s, id), "UpdateSyncButtonState", IF IsHotkey(s, id, TRUE) THEN 1 ELSE 0)
    ELSE s

\* lines 218-221
BodyDebugging(s) == IF s.bEnableDebugging THEN CheckDebuggingHotkeys(s) ELSE s

\* lines 225-241: the last asserted connect hotkey wins
BodyWiimote(s) ==
  IF Idle(WiimoteKeys) THEN s ELSE
  LET k1 == HK("HK_WIIMOTE1_CONNECT")
      k2 == HK("HK_WIIMOTE2_CONNECT")
      k3 == HK("HK_WIIMOTE3_CONNECT")
      k4 == HK("HK_WIIMOTE4_CONNECT")
      k5 == HK("HK_BALANCEBOARD_CONNECT")
      s1 == Queried(s, k1)
      s2 == Queried(s1, k2)
      s3 == Queried(s2, k3)
      s4 == Queried(s3, k4)
      s5 == Queried(s4, k5)
      w1 == IF IsHotkey(s, k1, FALSE) THEN 0 ELSE -1
      w2 == IF IsHotkey(s1, k2, FALSE) THEN 1 ELSE w1
      w3 == IF IsHotkey(s2, k3, FALSE) THEN 2 ELSE w2
      w4 == IF IsHotkey(s3, k4, FALSE) THEN 3 ELSE w3
      wiimote_id == IF IsHotkey(s4, k5, FALSE) THEN 4 ELSE w4
  IN IF ~s.bWii THEN s
     ELSE IF wiimote_id > -1 THEN Emit(s5, "ConnectWiiRemote", wiimote_id) ELSE s5

\* `if (IsHotkey(id)) { show_msg(osd); call(arg); }`
OnHotkeyMsg(s, id, osd, name, arg) ==
  IF IsHotkey(s, id, FALSE)
    THEN Emit(Emit(Queried(s, id), osd, 0), name, arg)
    ELSE Queried(s, id)

\* lines 248-323: volume, graphics toggles, throttle.  The settings written
\* here are not tracked; the write is recorded as a call.
BodyToggles(s) ==
  IF Idle(GraphicsKeys) THEN s ELSE
  LET a == OnHotkeyMsg(s, HK("HK_VOLUME_DOWN"), "OSD_VolumeChanged", "DecreaseVolume", 3)
      b == OnHotkeyMsg(a, HK("HK_VOLUME_UP"), "OSD_VolumeChanged", "IncreaseVolume", 3)
      c == OnHotkeyMsg(b, HK("HK_VOLUME_TOGGLE_MUTE"), "OSD_VolumeChanged", "ToggleMuteVolume", 0)
      d == OnHotkeyMsg(c, HK("HK_INCREASE_IR"), "OSD_IRChanged", "Increase_GFX_EFB_SCALE", 0)
      e == OnHotkeyMsg(d, HK("HK_DECREASE_IR"), "OSD_IRChanged", "Decrease_GFX_EFB_SCALE", 0)
      f == OnHotkey(e, HK("HK_TOGGLE_CROP"), "Toggle_GFX_CROP", 0)
      g == OnHotkeyMsg(f, HK("HK_TOGGLE_AR"), "OSD_ARToggled", "Next_GFX_ASPECT_RATIO", 0)
      h == OnHotkeyMsg(g, HK("HK_TOGGLE_EFBCOPIES"), "OSD_EFBCopyToggled",
                       "Toggle_GFX_HACK_SKIP_EFB_COPY_TO_RAM", 0)
      i == OnHotkeyMsg(h, HK("HK_TOGGLE_XFBCOPIES"), "OSD_XFBChanged",
                       "Toggle_GFX_HACK_SKIP_XFB_COPY_TO_RAM", 0)
      j == OnHotkeyMsg(i, HK("HK_TOGGLE_IMMEDIATE_XFB"), "OSD_XFBChanged",
                       "Toggle_GFX_HACK_IMMEDIATE_XFB", 0)
      k == OnHotkeyMsg(j, HK("HK_TOGGLE_FOG"), "OSD_FogToggled", "Toggle_GFX_DISABLE_FOG", 0)
      l == OnHotkey(k, HK("HK_TOGGLE_DUMPTEXTURES"), "Toggle_GFX_DUMP_TEXTURES", 0)
  IN OnHotkey(l, HK("HK_TOGGLE_TEXTURES"), "Toggle_GFX_HIRES_TEXTURES", 0)

\* line 323: called on every pass, with the held state of the throttle hotkey
BodyThrottle(s) ==
  LET thr == HK("HK_TOGGLE_THROTTLE")
  IN Emit(Queried(s, thr), "SetIsThrottlerTempDisabled",
          IF IsHotkey(s, thr, TRUE) THEN 1 ELSE 0)

BodyGraphics(s) == BodyThrottle(BodyToggles(s))

\* the snap band taken one step too wide
DecreasedSpeed_WideBand(old) ==
  LET speed == old - 10
  IN IF speed <= 0 \/ (speed >= 90 /\ speed <= 110) THEN 100 ELSE speed

\* lines 329-330, in hundredths
DecreasedSpeed(old) ==
  LET speed == old - 10
  IN IF speed <= 0 \/ (speed >= 95 /\ speed <= 105) THEN 100 ELSE speed

\* the increase without the snap to 1.0
IncreasedSpeed_NoSnap(old) == old + 10

\* lines 338-339, in hundredths
IncreasedSpeed(old) ==
  LET speed == old + 10
  IN IF speed >= 95 /\ speed <= 105 THEN 100 ELSE speed

\* lines 325-341
BodyEmulationSpeed(s) ==
  IF Idle(SpeedKeys) THEN s ELSE
  LET dec == HK("HK_DECREASE_EMULATION_SPEED")
      inc == HK("HK_INCREASE_EMULATION_SPEED")
      a == IF IsHotkey(s, dec, FALSE)
             THEN [Emit(Queried(s, dec), "OSD_SpeedChanged", 0)
                     EXCEPT !.m_EmulationSpeed = DecreasedSpeed(@)]
             ELSE Queried(s, dec)
  IN IF IsHotkey(a, inc, FALSE)
       THEN [Emit(Queried(a, inc), "OSD_SpeedChanged", 0)
               EXCEPT !.m_EmulationSpeed = IncreasedSpeed(@)]
       ELSE Queried(a, inc)

\* lines 343-348
BodySelectedSlot(s) ==
  IF Idle(SelectedSlotKeys) THEN s ELSE
  LET a == OnHotkey(s, HK("HK_SAVE_STATE_SLOT_SELECTED"), "StateSaveSlotHotkey", 0)
  IN OnHotkey(a, HK("HK_LOAD_STATE_SLOT_SELECTED"), "StateLoadSlotHotkey", 0)

----------------------------------------------------------------------------
\* Stereoscopy, lines 350-395.  Each operator returns the new state; the
\* hotkeys whose query returned true are collected by StereoFired.

ClearDubois(s) ==
  IF s.post_shader = DUBOIS_ALGORITHM_SHADER THEN [s EXCEPT !.post_shader = ""] ELSE s

\* lines 351-366: `||` does not query TAB when SBS fired; line 360 queries SBS again
StereoSbsTab(s) ==
  LET sbs == HK("HK_TOGGLE_STEREO_SBS")
      tab == HK("HK_TOGGLE_STEREO_TAB")
      sbs_fired == IsHotkey(s, sbs, FALSE)
      s1 == Queried(s, sbs)
      tab_fired == ~sbs_fired /\ IsHotkey(s1, tab, FALSE)
      s2 == IF sbs_fired THEN s1 ELSE Queried(s1, tab)
      s3 == ClearDubois(s2)
      s4 == Queried(s3, sbs)
  IN IF sbs_fired \/ tab_fired
       THEN IF s2.stereo_mode # "SBS"
              THEN [s4 EXCEPT !.stereo_mode = IF IsHotkey(s3, sbs, FALSE) THEN "SBS" ELSE "TAB"]
              ELSE [s2 EXCEPT !.stereo_mode = "Off"]
       ELSE s2

\* lines 368-380
StereoAnaglyph(s) ==
  LET id == HK("HK_TOGGLE_STEREO_ANAGLYPH")
      q == Queried(s, id)
  IN IF IsHotkey(s, id, FALSE)
       THEN IF q.stereo_mode # "Anaglyph"
              THEN [q EXCEPT !.stereo_mode = "Anaglyph", !.post_shader = DUBOIS_ALGORITHM_SHADER]
              ELSE [q EXCEPT !.stereo_mode = "Off", !.post_shader = ""]
       ELSE q

\* the 3D Vision toggle without the reset of the dubois shader
Stereo3DVision_KeepShader(s) ==
  LET id == HK("HK_TOGGLE_STEREO_3DVISION")
      q == Queried(s, id)
  IN IF IsHotkey(s, id, FALSE)
       THEN IF q.stereo_mode # "Nvidia3DVision"
              THEN [q EXCEPT !.stereo_mode = "Nvidia3DVision"]
              ELSE [q EXCEPT !.stereo_mode = "Off"]
       ELSE q

\* lines 382-395
Stereo3DVision(s) ==
  LET id == HK("HK_TOGGLE_STEREO_3DVISION")
      q == Queried(s, id)
  IN IF IsHotkey(s, id, FALSE)
       THEN IF q.stereo_mode # "Nvidia3DVision"
              THEN [ClearDubois(q) EXCEPT !.stereo_mode = "Nvidia3DVision"]
              ELSE [q EXCEPT !.stereo_mode = "Off"]
       ELSE q

\* the stereo hotkeys that fire in this pass
StereoFired(s) ==
  LET sbs == HK("HK_TOGGLE_STEREO_SBS")
      tab == HK("HK_TOGGLE_STEREO_TAB")
      ana == HK("HK_TOGGLE_STEREO_ANAGLYPH")
      vis == HK("HK_TOGGLE_STEREO_3DVISION")
      a == StereoSbsTab(s)
      b == StereoAnaglyph(a)
  IN (IF IsHotkey(s, sbs, FALSE) THEN {sbs} ELSE {})
     \cup (IF ~IsHotkey(s, sbs, FALSE) /\ IsHotkey(Queried(s, sbs), tab, FALSE) THEN {tab} ELSE {})
     \cup (IF IsHotkey(a, ana, FALSE) THEN {ana} ELSE {})
     \cup (IF IsHotkey(b, vis, FALSE) THEN {vis} ELSE {})

\* history of the toggles: restarted whenever a pass begins with the group Off
\* and the shader not dubois; <<{}>> stands for more than two firing ticks
ToggleHist(s, fired) ==
  LET base == IF s.stereo_mode = "Off" /\ s.post_shader # DUBOIS_ALGORITHM_SHADER
                THEN << >> ELSE s.toggle_hist
  IN IF fired = {} THEN base
     ELSE IF Len(base) < 2 /\ base # <<{}>> THEN Append(base, fired)
     ELSE <<{}>>

BodyStereoscopy(s) ==
  IF Idle(StereoKeys) THEN s ELSE
  LET r == Stereo3DVision(StereoAnaglyph(StereoSbsTab(s)))
  IN [r EXCEPT !.toggle_hist = ToggleHist(s, StereoFired(s))]

----------------------------------------------------------------------------
\* lines 398-470: the part of the loop body after the `!= Stopping` block

\* lines 398-412: both values are read once, before the queries
BodyDepth(s) ==
  IF Idle(DepthKeys) THEN s ELSE
  LET dd == HK("HK_DECREASE_DEPTH")
      di == HK("HK_INCREASE_DEPTH")
      cd == HK("HK_DECREASE_CONVERGENCE")
      ci == HK("HK_INCREASE_CONVERGENCE")
      depth == s.stereo_depth
      a == IF IsHotkey(s, dd, TRUE)
             THEN [Queried(s, dd) EXCEPT !.stereo_depth = Min(depth - 1, 0)]
             ELSE Queried(s, dd)
      b == IF IsHotkey(a, di, TRUE)
             THEN [Queried(a, di) EXCEPT !.stereo_depth = Min(depth + 1, 100)]
             ELSE Queried(a, di)
      conv == b.stereo_convergence
      c == IF IsHotkey(b, cd, TRUE)
             THEN [Queried(b, cd) EXCEPT !.stereo_convergence = Max(conv - 5, 0)]
             ELSE Queried(b, cd)
  IN IF IsHotkey(c, ci, TRUE)
       THEN [Queried(c, ci) EXCEPT !.stereo_convergence = Min(conv + 5, 500)]
       ELSE Queried(c, ci)

\* `if (IsHotkey(id, true)) VertexShaderManager::name(fl_speed);`
OnHeldView(s, id, name) == OnHeld(s, id, name, s.fl_speed)

\* lines 414-445
BodyFreelook(s) ==
  IF Idle(FreelookKeys) THEN s ELSE
  LET kd == HK("HK_FREELOOK_DECREASE_SPEED")
      ki == HK("HK_FREELOOK_INCREASE_SPEED")
      kr == HK("HK_FREELOOK_RESET_SPEED")
      a == IF IsHotkey(s, kd, TRUE) THEN [Queried(s, kd) EXCEPT !.fl_speed = @ - 1]
           ELSE Queried(s, kd)
      b == IF IsHotkey(a, ki, TRUE) THEN [Queried(a, ki) EXCEPT !.fl_speed = @ + 1]
           ELSE Queried(a, ki)
      c == IF IsHotkey(b, kr, TRUE) THEN [Queried(b, kr) EXCEPT !.fl_speed = 0]
           ELSE Queried(b, kr)
      d == OnHeldView(c, HK("HK_FREELOOK_UP"), "TranslateView_Up")
      e == OnHeldView(d, HK("HK_FREELOOK_DOWN"), "TranslateView_Down")
      f == OnHeldView(e, HK("HK_FREELOOK_LEFT"), "TranslateView_Left")
      g == OnHeldView(f, HK("HK_FREELOOK_RIGHT"), "TranslateView_Right")
      h == OnHeldView(g, HK("HK_FREELOOK_ZOOM_IN"), "TranslateView_ZoomIn")
      i == OnHeldView(h, HK("HK_FREELOOK_ZOOM_OUT"), "TranslateView_ZoomOut")
  IN OnHeld(i, HK("HK_FREELOOK_RESET"), "ResetView", 0)

\* the loop index passed on as the slot number
SlotPass_ZeroBased(s, i) ==
  LET a == OnHotkey(s, HKi("HK_LOAD_STATE_SLOT_1", i), "StateLoadSlot", i)
      b == OnHotkey(a, HKi("HK_SAVE_STATE_SLOT_1", i), "StateSaveSlot", i)
      c == OnHotkey(b, HKi("HK_LOAD_LAST_STATE_1", i), "StateLoadLastSaved", i)
  IN OnHotkey(c, HKi("HK_SELECT_STATE_SLOT_1", i), "SetStateSlotHotkey", i)

\* lines 450-460: one pass of the savestate loop
SlotPass(s, i) ==
  IF Idle(SlotFamily(i)) THEN s ELSE
  LET a == OnHotkey(s, HKi("HK_LOAD_STATE_SLOT_1", i), "StateLoadSlot", i + 1)
      b == OnHotkey(a, HKi("HK_SAVE_STATE_SLOT_1", i), "StateSaveSlot", i + 1)
      c == OnHotkey(b, HKi("HK_LOAD_LAST_STATE_1", i), "StateLoadLastSaved", i + 1)
  IN OnHotkey(c, HKi("HK_SELECT_STATE_SLOT_1", i), "SetStateSlotHotkey", i + 1)

\* lines 448-461: `for (u32 i = 0; i < State::NUM_STATES; i++)`, from pass i on
RECURSIVE SlotLoop(_, _)
SlotLoop(s, i) ==
  IF Idle(SlotKeys) THEN s
  ELSE IF i < NUM_STATES THEN SlotLoop(SlotPass(s, i), i + 1) ELSE s

\* lines 463-470
BodyUndo(s) ==
  IF Idle(UndoKeys) THEN s ELSE
  LET a == OnHotkey(s, HK("HK_SAVE_FIRST_STATE"), "StateSaveOldest", 0)
      b == OnHotkey(a, HK("HK_UNDO_LOAD_STATE"), "StateLoadUndo", 0)
  IN OnHotkey(b, HK("HK_UNDO_SAVE_STATE"), "StateSaveUndo", 0)

\* lines 207-241
BodyDevices(s) == BodyWiimote(BodyDebugging(BodySyncButton(s)))

\* lines 325-395
BodySettings(s) == BodyStereoscopy(BodySelectedSlot(BodyEmulationSpeed(s)))

----------------------------------------------------------------------------
\* What the host reports to one loop iteration: HotkeyManagerEmu::IsEnabled(),
\* Core::GetState() and Core::IsRunningAndStarted() (false while stopping)

HostInputs ==
  {h \in [enabled : BOOLEAN, state : CoreStates, started : BOOLEAN] :
     h.state = "Stopping" => ~h.started}

\* lines 135-146: which way an iteration goes
Gate(h) ==
  IF ~h.enabled THEN "disabled"
  ELSE IF h.state = "Stopping" THEN "stopping"
  ELSE IF ~h.started THEN "not_started"
  ELSE "operational"

\* the model follows the unbounded settings only inside the bounds: an
\* iteration is taken only if the state its body ends in satisfies this
InBounds(s) ==
  /\ s.m_EmulationSpeed <= MaxSpeed
  /\ s.stereo_depth >= -MaxDepthDrop
  /\ s.fl_speed >= -MaxFl /\ s.fl_speed <= MaxFl

\* write the record back to the variables
Commit(s) ==
  /\ InBounds(s)
  /\ status' = s.status
  /\ down' = s.down
  /\ emitted' = s.emitted
  /\ frame_step_count' = s.frame_step_count
  /\ frame_step_delay' = s.frame_step_delay
  /\ frame_step_delay_count' = s.frame_step_delay_count
  /\ frame_step_hold' = s.frame_step_hold
  /\ m_EmulationSpeed' = s.m_EmulationSpeed
  /\ stereo_mode' = s.stereo_mode
  /\ post_shader' = s.post_shader
  /\ stereo_depth' = s.stereo_depth
  /\ stereo_convergence' = s.stereo_convergence
  /\ fl_speed' = s.fl_speed
  /\ step_track' = s.step_track
  /\ step_n' = s.step_n
  /\ step_since' = s.step_since
  /\ step_gap' = s.step_gap
  /\ toggle_hist' = s.toggle_hist

\* the state a new iteration starts from
Fresh == [Cur EXCEPT !.emitted = << >>]

\* lines 398-471 from state s: the state the tail of the body ends in, as a
\* one-element set (the blocks are worked through one after the other)
TailOf(s) ==
  {BodyUndo(b) : b \in {SlotLoop(a, 0) : a \in {BodyFreelook(BodyDepth(s))}}}

\* lines 168-471 from state s
RestOf(s) ==
  UNION {TailOf(d) :
           d \in {BodySettings(c) :
                    c \in {BodyGraphics(b) :
                             b \in {BodyDevices(a) : a \in {BodyControls(s)}}}}}

RunTail(s) == \E r \in TailOf(s) : Commit(r)

RunRest(s) == \E r \in RestOf(s) : Commit(r)

Samples == KeySets(bound, MaxPressed)

\* the fullscreen hotkey without its Common::SleepCurrentThread(100)
Process_NoPause(keys) ==
  \E sampled \in {GetStatus(Fresh, keys)} :
  \E head \in {BodyHead(sampled)} :
    RunRest(head) /\ runPc' = "while"

\* lines 143-166 (and to the end of the body when fullscreen does not fire):
\* GetStatus() samples `keys`, then the hotkeys are worked through
Process(keys) ==
  \E sampled \in {GetStatus(Fresh, keys)} :
  \E head \in {BodyHead(sampled)} :
    IF FullscreenFired(sampled)
      THEN Commit(head) /\ (\A r \in RestOf(head) : InBounds(r)) /\ runPc' = "fs_sleep"
      ELSE RunRest(head) /\ runPc' = "while"

\* the loop without the IsEnabled() test of line 135
Iteration_NoEnabledGate(g) ==
  /\ gate' = g
  /\ CASE g = "stopping" -> RunTail(Fresh) /\ runPc' = "while"
       [] g = "not_started" ->
            \E keys \in Samples : Commit(GetStatus(Fresh, keys)) /\ runPc' = "while"
       [] g \in {"operational", "disabled"} -> \E keys \in Samples : Process(keys)

\* lines 133-471: the iteration that wakes up from its sleep and finds the
\* host such that it takes way g through the gates.
\* g_controller_interface.UpdateInput() (lines 138-139) refreshes the devices
\* behind the next sample and changes nothing that is modelled.
Iteration(g) ==
  /\ gate' = g
  /\ CASE g = "disabled" -> Commit(Fresh) /\ runPc' = "while"
       [] g = "stopping" -> RunTail(Fresh) /\ runPc' = "while"
       [] g = "not_started" ->
            \E keys \in Samples : Commit(GetStatus(Fresh, keys)) /\ runPc' = "while"
       [] g = "operational" -> \E keys \in Samples : Process(keys)

\* an iteration under one of the host reports H
TickUnder(H) ==
  /\ ~terminated /\ runPc = "sleep"
  /\ \E g \in {Gate(h) : h \in H} : Iteration(g)
  /\ UNCHANGED << m_stop_requested, joinable, ctl, run_loops, terminated, bound, consume,
                  bEnableDebugging, bWii, m_bt_passthrough_enabled >>

\* the host while a game runs and the hotkeys are enabled
RunningHost == {h \in HostInputs : h.enabled /\ h.state = "Running" /\ h.started}

----------------------------------------------------------------------------
\* Actions of the Run thread

\* line 131: `while (!m_stop_requested.IsSet())`
RunWhile ==
  /\ ~terminated /\ runPc = "while"
  /\ IF m_stop_requested
       THEN runPc' = "exited" /\ run_loops' = run_loops - 1
       ELSE runPc' = "sleep" /\ UNCHANGED run_loops
  /\ UNCHANGED << m_stop_requested, joinable, ctl, terminated, bound, consume, status, down,
                  frame_step_count, frame_step_delay, frame_step_delay_count, frame_step_hold,
                  m_EmulationSpeed, stereo_mode, post_shader, stereo_depth,
                  stereo_convergence, fl_speed, bEnableDebugging, bWii,
                  m_bt_passthrough_enabled, emitted, gate, step_track, step_n, step_since,
                  step_gap, toggle_hist >>

\* lines 133-471: the tick sleep ends and the body runs
RunTick == TickUnder(HostInputs)

\* the same while a game keeps running
RunTickRunning == TickUnder(RunningHost)

\* lines 165-471: the 100 ms pause after the fullscreen command ends
RunResume ==
  /\ ~terminated /\ runPc = "fs_sleep"
  /\ RunRest(Cur)
  /\ runPc' = "while"
  /\ UNCHANGED << m_stop_requested, joinable, ctl, run_loops, terminated, bound, consume,
                  bEnableDebugging, bWii, m_bt_passthrough_enabled, gate >>

----------------------------------------------------------------------------
\* Actions of the controller thread

cfgvars == << bound, consume, status, down,
              frame_step_count, frame_step_delay, frame_step_delay_count, frame_step_hold,
              m_EmulationSpeed, stereo_mode, post_shader, stereo_depth, stereo_convergence,
              fl_speed, bEnableDebugging, bWii, m_bt_passthrough_enabled,
              emitted, gate, step_track, step_n, step_since, step_gap, toggle_hist >>

\* lines 47-51.  The new std::thread is constructed, and its Run started,
\* before it is move-assigned to m_thread; assigning to a joinable
\* std::thread calls std::terminate().
Start ==
  /\ ~terminated /\ ctl = "idle"
  /\ m_stop_requested' = FALSE
  /\ run_loops' = run_loops + 1
  /\ IF joinable
       THEN terminated' = TRUE /\ UNCHANGED << joinable, runPc >>
       ELSE joinable' = TRUE /\ runPc' = "while" /\ UNCHANGED terminated
  /\ UNCHANGED ctl
  /\ UNCHANGED cfgvars

\* line 55
StopRequest ==
  /\ ~terminated /\ ctl = "idle"
  /\ m_stop_requested' = TRUE
  /\ ctl' = "stop"
  /\ UNCHANGED << joinable, runPc, run_loops, terminated >>
  /\ UNCHANGED cfgvars

\* Stop() that returns without waiting for the thread
StopJoin_NoWait ==
  /\ ~terminated /\ ctl = "stop"
  /\ IF joinable
       THEN joinable' = FALSE /\ UNCHANGED runPc
       ELSE UNCHANGED << joinable, runPc >>
  /\ ctl' = "idle"
  /\ UNCHANGED << m_stop_requested, run_loops, terminated >>
  /\ UNCHANGED cfgvars

\* lines 57-58: join() returns once Run has returned
StopJoin ==
  /\ ~terminated /\ ctl = "stop"
  /\ IF joinable
       THEN runPc = "exited" /\ joinable' = FALSE /\ runPc' = "none"
       ELSE UNCHANGED << joinable, runPc >>
  /\ ctl' = "idle"
  /\ UNCHANGED << m_stop_requested, run_loops, terminated >>
  /\ UNCHANGED cfgvars

----------------------------------------------------------------------------
\* Initial states

\* the state after the constructor (lines 35-40), with hotkeys B bound
Constructed(B) ==
  /\ m_stop_requested = FALSE
  /\ joinable = FALSE
  /\ ctl = "idle"
  /\ runPc = "none"
  /\ run_loops = 0
  /\ terminated = FALSE
  /\ bound = B
  /\ status = {}
  /\ down = {}
  /\ frame_step_count = 0
  /\ frame_step_delay = 1
  /\ frame_step_delay_count = 0
  /\ frame_step_hold = FALSE
  /\ stereo_depth = 20
  /\ stereo_convergence = 20
  /\ fl_speed = 0
  /\ bEnableDebugging = FALSE
  /\ bWii = FALSE
  /\ m_bt_passthrough_enabled = FALSE
  /\ emitted = << >>
  /\ gate = "none"
  /\ step_track = FALSE
  /\ step_n = 0
  /\ step_since = 0
  /\ step_gap = 0
  /\ toggle_hist = << >>

Init ==
  /\ Constructed(MainKeys)
  /\ consume = TRUE
  /\ m_EmulationSpeed = 100
  /\ stereo_mode = "Off"
  /\ post_shader = ""

Next == Start \/ StopRequest \/ StopJoin \/ RunWhile \/ RunTick \/ RunResume

Spec == Init /\ [][Next]_vars

\* every sleep ends, and join() returns once the thread has exited
FairSpec ==
  Spec /\ WF_vars(RunWhile) /\ WF_vars(RunTick) /\ WF_vars(RunResume) /\ WF_vars(StopJoin)

\* the state after Start() (lines 47-51) of a scheduler constructed with
\* hotkeys B, under a configuration with bEnableDebugging = dbg and bWii = wii
StartedWith(B, dbg, wii) ==
  /\ m_stop_requested = FALSE
  /\ joinable = TRUE
  /\ ctl = "idle"
  /\ runPc = "while"
  /\ run_loops = 1
  /\ terminated = FALSE
  /\ bound = B
  /\ status = {}
  /\ down = {}
  /\ frame_step_count = 0
  /\ frame_step_delay = 1
  /\ frame_step_delay_count = 0
  /\ frame_step_hold = FALSE
  /\ stereo_depth = 20
  /\ stereo_convergence = 20
  /\ fl_speed = 0
  /\ bEnableDebugging = dbg
  /\ bWii = wii
  /\ m_bt_passthrough_enabled = FALSE
  /\ emitted = << >>
  /\ gate = "none"
  /\ step_track = FALSE
  /\ step_n = 0
  /\ step_since = 0
  /\ step_gap = 0
  /\ toggle_hist = << >>

\* the same under the default configuration
Started(B) == StartedWith(B, FALSE, FALSE)

\* the scheduler left running while a game runs
NextRunning == RunWhile \/ RunTickRunning

\* frame advance: only the frame-advance hotkeys are bound
InitFrame ==
  /\ Started(FrameKeys)
  /\ consume = TRUE
  /\ m_EmulationSpeed = 100
  /\ stereo_mode = "Off"
  /\ post_shader = ""

SpecFrame == InitFrame /\ [][NextRunning]_vars

\* stereoscopy: only the stereo toggles are bound; the two settings come
\* from the configuration, and both variants of the edge detector are covered
InitStereo ==
  /\ Started(StereoKeys)
  /\ consume \in BOOLEAN
  /\ m_EmulationSpeed = 100
  /\ stereo_mode \in StereoModes
  /\ post_shader \in {"", DUBOIS_ALGORITHM_SHADER, "other"}

SpecStereo == InitStereo /\ [][NextRunning]_vars

\* savestate slots: the four hotkeys of one slot and the load hotkey of the next
SlotBindings ==
  {SlotFamily(i) \cup {HKi("HK_LOAD_STATE_SLOT_1", (i + 1) % NUM_STATES)} :
     i \in 0 .. NUM_STATES - 1}

InitSlots ==
  /\ \E B \in SlotBindings : Started(B)
  /\ consume = TRUE
  /\ m_EmulationSpeed = 100
  /\ stereo_mode = "Off"
  /\ post_shader = ""

\* the scheduler left running, whatever the host does
NextLoop == RunWhile \/ RunTick

SpecSlots == InitSlots /\ [][NextLoop]_vars

\* emulation speed: the speed comes from the configuration
InitSpeed ==
  /\ Started(SpeedKeys)
  /\ consume = TRUE
  /\ m_EmulationSpeed \in 1 .. MaxSpeed
  /\ stereo_mode = "Off"
  /\ post_shader = ""

SpecSpeed == InitSpeed /\ [][NextRunning]_vars

\* debugging: the debugging hotkeys are bound and debugging is enabled
InitDebug ==
  /\ StartedWith(DebugKeys, TRUE, FALSE)
  /\ consume = TRUE
  /\ m_EmulationSpeed = 100
  /\ stereo_mode = "Off"
  /\ post_shader = ""

SpecDebug == InitDebug /\ [][NextRunning]_vars

\* edge actions: a plain edge hotkey and two of the Wii Remote connect hotkeys
\* are bound, on a Wii title, under both variants of the edge detector
EdgeProbeKeys == {HK("HK_SCREENSHOT"), HK("HK_WIIMOTE1_CONNECT"), HK("HK_WIIMOTE2_CONNECT")}

InitEdge ==
  /\ StartedWith(EdgeProbeKeys, FALSE, TRUE)
  /\ consume \in BOOLEAN
  /\ m_EmulationSpeed = 100
  /\ stereo_mode = "Off"
  /\ post_shader = ""

SpecEdge == InitEdge /\ [][NextRunning]_vars

----------------------------------------------------------------------------
\* Properties

\* the step is an iteration of the Run loop leaving its tick sleep
TickStep == runPc = "sleep" /\ runPc' \in {"while", "fs_sleep"}

\* hotkey k is newly asserted in the sample this step works on
EdgeFired(k) == k \in status' /\ k \notin down

SlotCommandNames ==
  {"StateLoadSlot", "StateSaveSlot", "StateLoadLastSaved", "SetStateSlotHotkey"}

SlotCommand(b) ==
  CASE b = "HK_LOAD_STATE_SLOT_1" -> "StateLoadSlot"
    [] b = "HK_SAVE_STATE_SLOT_1" -> "StateSaveSlot"
    [] b = "HK_LOAD_LAST_STATE_1" -> "StateLoadLastSaved"
    [] b = "HK_SELECT_STATE_SLOT_1" -> "SetStateSlotHotkey"

\* the slot commands among the calls e
SlotCommands(e) == {c \in Range(e) : c[1] \in SlotCommandNames}

\* C1: Cancellation.  Under FairSpec every call of Stop() returns; it returns
\* only when no Run loop is left; and as long as no thread has been started
\* again nothing is sampled and nothing is emitted.
C1_Cancellation ==
  /\ [](ctl = "stop" => <>(ctl = "idle"))
  /\ [][(ctl = "stop" /\ ctl' = "idle") => (runPc' = "none" /\ run_loops' = 0)]_vars
  /\ [][(~joinable /\ ~joinable') => UNCHANGED << status, down, emitted, gate >>]_vars

\* Stop() has returned after the loop had processed hotkeys
C1_Witness ==
  /\ ctl = "idle" /\ ~joinable /\ m_stop_requested /\ runPc = "none"
  /\ gate = "operational"

\* C2: Start() is idempotent: at most one Run loop exists and no call ends in
\* abnormal termination.
C2_StartIdempotent == ~terminated /\ run_loops <= 1

\* C3: while the hold lasts and no delay action fires, two consecutive step
\* commands are exactly 30 + frame_step_delay ticks apart.
C3_StepPeriod ==
  (step_track /\ step_n >= 2) => step_gap = FRAME_STEP_DELAY + frame_step_delay

\* C3 as amended: in a hold that starts at frame_step_count = 0 the second
\* step command comes 30 ticks after the first, every later one
\* frame_step_delay + 1 ticks after the one before.
C3_StepPeriodAmended ==
  step_track =>
    /\ step_n = 2 => step_gap = FRAME_STEP_DELAY
    /\ step_n = 3 => step_gap = frame_step_delay + 1

\* a third step command at the largest delay
C3_Witness ==
  /\ step_track /\ step_n = 3 /\ step_since = 0
  /\ frame_step_delay = MAX_FRAME_SKIP_DELAY
  /\ step_gap = MAX_FRAME_SKIP_DELAY + 1

\* C4: a processed tick that samples the hold action as not asserted while
\* frame_step_count > 0 ends with the three frame-step values reset.
C4_ReleaseReset ==
  [][(TickStep /\ gate' = "operational" /\ HK("HK_FRAME_ADVANCE") \notin status'
        /\ frame_step_count > 0)
     => (frame_step_count' = 0 /\ frame_step_delay_count' = 0 /\ ~frame_step_hold')]_vars

\* C5: from Off without dubois, a stereo toggle fired twice, with no other
\* toggle in between, leaves Off without dubois.
C5_ToggleTwiceOff ==
  \A k \in StereoKeys :
    toggle_hist = <<{k}, {k}>> =>
      (stereo_mode = "Off" /\ post_shader # DUBOIS_ALGORITHM_SHADER)

ModeOf(k) ==
  CASE k = HK("HK_TOGGLE_STEREO_SBS") -> "SBS"
    [] k = HK("HK_TOGGLE_STEREO_TAB") -> "TAB"
    [] k = HK("HK_TOGGLE_STEREO_ANAGLYPH") -> "Anaglyph"
    [] k = HK("HK_TOGGLE_STEREO_3DVISION") -> "Nvidia3DVision"

\* C6: from Off, toggle A and then a different toggle B leave the group in
\* B's mode, without dubois when A is Anaglyph; the mode is always one value
\* of the group.
C6_ToggleExclusive ==
  /\ stereo_mode \in StereoModes
  /\ \A a \in StereoKeys : \A b \in StereoKeys \ {a} :
       toggle_hist = <<{a}, {b}>> =>
         /\ stereo_mode = ModeOf(b)
         /\ a = HK("HK_TOGGLE_STEREO_ANAGLYPH") => post_shader # DUBOIS_ALGORITHM_SHADER

\* C7: in an iteration that runs the slot loop, the command of family b with
\* number i + 1 is emitted exactly when hotkey b + i fired; every slot command
\* carries a number in 1 .. NUM_STATES; load-slot-3 alone gives StateLoadSlot(4)
\* and nothing else.
C7_SlotEnumeration ==
  [][(TickStep /\ gate' \in {"operational", "stopping"}) =>
       /\ \A i \in 0 .. NUM_STATES - 1 : \A b \in SlotBases :
            (<<SlotCommand(b), i + 1>> \in Range(emitted')) <=> EdgeFired(HKi(b, i))
       /\ \A c \in SlotCommands(emitted') : c[2] \in 1 .. NUM_STATES
       /\ {k \in SlotKeys : EdgeFired(k)} = {HKi("HK_LOAD_STATE_SLOT_1", 3)}
            => SlotCommands(emitted') = {<<"StateLoadSlot", 4>>}]_vars

\* only load-slot-3 was asserted, and StateLoadSlot(4) is the one slot command
C7_Witness ==
  /\ status = {HKi("HK_LOAD_STATE_SLOT_1", 3)}
  /\ SlotCommands(emitted) = {<<"StateLoadSlot", 4>>}
  /\ gate = "operational"

ConfigVars == << m_EmulationSpeed, stereo_mode, post_shader, stereo_depth,
                 stereo_convergence, fl_speed >>

FrameVars == << frame_step_count, frame_step_delay, frame_step_delay_count,
                frame_step_hold >>

\* C8: an iteration that finds the host stopping, or not running and started,
\* emits nothing and changes no setting or view value.
C8_LifecycleGate ==
  [][(TickStep /\ gate' \in {"stopping", "not_started"})
     => (emitted' = << >> /\ UNCHANGED ConfigVars)]_vars

\* C9: an iteration that finds the hotkeys disabled takes no sample, queries
\* no hotkey, emits nothing, changes no frame-step, setting or freelook
\* value, and goes back to the test of the stop flag.
C9_EnabledGate ==
  [][(TickStep /\ gate' = "disabled")
     => /\ emitted' = << >>
        /\ UNCHANGED << status, down >>
        /\ UNCHANGED FrameVars
        /\ UNCHANGED ConfigVars
        /\ runPc' = "while"]_vars

\* the last iteration found the hotkeys disabled while an asserted hotkey was
\* waiting to fire
C9_Witness ==
  /\ gate = "disabled" /\ runPc = "while"
  /\ status \ down # {}

\* the step is a processed iteration in which, of the two speed hotkeys, only
\* the decrease fires
DecreaseOnly ==
  /\ TickStep /\ gate' = "operational"
  /\ EdgeFired(HK("HK_DECREASE_EMULATION_SPEED"))
  /\ ~EdgeFired(HK("HK_INCREASE_EMULATION_SPEED"))

\* C10: from speed 1.0 one decrease leaves the speed at exactly 1.0.
C10_SnapExample ==
  [][(DecreaseOnly /\ m_EmulationSpeed = 100) => m_EmulationSpeed' = 100]_vars

\* C10 as amended: from speed 1.0 one decrease leaves the speed at 0.9.
C10_SnapExampleAmended ==
  [][(DecreaseOnly /\ m_EmulationSpeed = 100) => m_EmulationSpeed' = 90]_vars

\* a decrease alone has just taken the speed to 0.9, which only 1.0 leads to
C10_Witness ==
  /\ m_EmulationSpeed = 90
  /\ status = {HK("HK_DECREASE_EMULATION_SPEED")}
  /\ <<"OSD_SpeedChanged", 0>> \in Range(emitted)

\* the command of the command sink that belongs to debugging hotkey k
DebugCommand(k) ==
  CASE k = HK("HK_STEP") -> "Step"
    [] k = HK("HK_STEP_OVER") -> "StepOver"
    [] k = HK("HK_STEP_OUT") -> "StepOut"
    [] k = HK("HK_SKIP") -> "Skip"
    [] k = HK("HK_SHOW_PC") -> "ShowPC"
    [] k = HK("HK_SET_PC") -> "SetPC"
    [] k = HK("HK_BP_TOGGLE") -> "ToggleBreakpoint"
    [] k = HK("HK_BP_ADD") -> "AddBreakpoint"

\* C11: with debugging enabled, an iteration emits the command of a debugging
\* hotkey exactly when that hotkey fired, so set-pc alone emits SetPC and no
\* Skip.
C11_OneVariantPerCommand ==
  [][(TickStep /\ gate' = "operational" /\ bEnableDebugging) =>
       \A k \in DebugKeys :
         (<<DebugCommand(k), 0>> \in Range(emitted')) <=> EdgeFired(k)]_vars

\* the command that belongs to edge hotkey k
EdgeCommand(k) ==
  CASE k = HK("HK_SCREENSHOT") -> <<"ScreenShotHotkey", 0>>
    [] k = HK("HK_WIIMOTE1_CONNECT") -> <<"ConnectWiiRemote", 0>>
    [] k = HK("HK_WIIMOTE2_CONNECT") -> <<"ConnectWiiRemote", 1>>

\* how often call c occurs in the sequence e
Occurrences(e, c) == Cardinality({i \in DOMAIN e : e[i] = c})

\* C12: while every tick is processed, the command of an edge hotkey is
\* emitted on a tick exactly when the hotkey is asserted in that tick's sample
\* and was not in the sample before, and then once: one command per press, on
\* its first tick, however long the press lasts.
C12_EdgeOncePerPress ==
  [][(TickStep /\ gate' = "operational") =>
       \A k \in bound \cap EdgeProbeKeys :
         Occurrences(emitted', EdgeCommand(k)) =
           IF k \in status' /\ k \notin status THEN 1 ELSE 0]_vars

\* the step ends an iteration that processed hotkeys, its pause included
BodyDone == runPc \in {"sleep", "fs_sleep"} /\ runPc' = "while" /\ gate' = "operational"

\* C13: stereo depth stays in 0 .. 100 and stereo convergence in 0 .. 500; an
\* iteration with only the decrease of depth asserted takes a depth v >= 1 to
\* v - 1, one with only the decrease of convergence asserted a convergence
\* v >= 5 to v - 5.
C13_StereoClamp ==
  /\ [](stereo_depth \in 0 .. 100 /\ stereo_convergence \in 0 .. 500)
  /\ [][(BodyDone /\ status' \cap DepthKeys = {HK("HK_DECREASE_DEPTH")} /\ stereo_depth >= 1)
         => stereo_depth' = stereo_depth - 1]_vars
  /\ [][(BodyDone /\ status' \cap DepthKeys = {HK("HK_DECREASE_CONVERGENCE")}
           /\ stereo_convergence >= 5)
         => stereo_convergence' = stereo_convergence - 5]_vars

DelayKeys == {HK("HK_FRAME_ADVANCE_INCREASE_SPEED"), HK("HK_FRAME_ADVANCE_DECREASE_SPEED"),
              HK("HK_FRAME_ADVANCE_RESET_SPEED")}

\* whether the calls e hold a step command
Steps(e) == <<"DoFrameStep", 0>> \in Range(e)

\* C14: an iteration in which a frame-advance delay action fires ends with
\* the step cycle (step command, frame_step_count, frame_step_hold,
\* frame_step_delay_count) as the same iteration ends with when the delay
\* hotkeys are taken out of its sample.
C14_DelayIndependent ==
  [][(TickStep /\ gate' = "operational" /\ (\E k \in DelayKeys : EdgeFired(k))) =>
       \A ref \in {HandleFrameskipHotkeys(GetStatus(Fresh, status' \ DelayKeys))} :
         /\ Steps(emitted') <=> Steps(ref.emitted)
         /\ frame_step_count' = ref.frame_step_count
         /\ frame_step_hold' = ref.frame_step_hold
         /\ frame_step_delay_count' = ref.frame_step_delay_count]_vars

\* the query of hotkey k returns true in this step, under either variant of
\* the detector, when k was queried on every tick before
Fires(k) == k \in status' /\ k \notin (IF consume THEN down ELSE status)

\* C15: an iteration in which, of the stereo hotkeys, only SBS or only TAB is
\* asserted, and fires, leaves the group Off when it was in that hotkey's mode
\* and in that hotkey's mode otherwise, under both variants of the detector.
C15_SubVariant ==
  [][(TickStep /\ gate' = "operational") =>
       \A k \in {HK("HK_TOGGLE_STEREO_SBS"), HK("HK_TOGGLE_STEREO_TAB")} :
         (status' = {k} /\ Fires(k)) =>
           stereo_mode' = IF stereo_mode = ModeOf(k) THEN "Off" ELSE ModeOf(k)]_vars

\* C16: frame_step_delay stays in 0 .. 60; of the three delay hotkeys the
\* first that fires, in the order increase, decrease, reset, is applied and
\* no other: the increase adds 1 unless the delay is 60, the decrease
\* subtracts 1 unless it is 0, the reset stores 1; without one firing the
\* delay stays as it is.
C16_DelayBounds ==
  /\ [](frame_step_delay \in 0 .. MAX_FRAME_SKIP_DELAY)
  /\ [][(TickStep /\ gate' = "operational") =>
         frame_step_delay' =
           IF EdgeFired(HK("HK_FRAME_ADVANCE_INCREASE_SPEED"))
             THEN (IF frame_step_delay = 60 THEN 60 ELSE frame_step_delay + 1)
           ELSE IF EdgeFired(HK("HK_FRAME_ADVANCE_DECREASE_SPEED"))
             THEN (IF frame_step_delay = 0 THEN 0 ELSE frame_step_delay - 1)
           ELSE IF EdgeFired(HK("HK_FRAME_ADVANCE_RESET_SPEED")) THEN 1
           ELSE frame_step_delay]_vars

\* the delay is at its lower bound after a tick on which the decrease and the
\* reset were both asserted
C16_Witness ==
  /\ frame_step_delay = 0
  /\ status = {HK("HK_FRAME_ADVANCE_DECREASE_SPEED"), HK("HK_FRAME_ADVANCE_RESET_SPEED")}
  /\ gate = "operational"

\* C17: frame_step_count never exceeds 30; in a hold that starts from the
\* idle state, with no delay action firing, the first held tick emits a step
\* command, held ticks 2 to 30 emit none, and the 31st emits the next one,
\* whatever the delay.
C17_BurstStart ==
  /\ frame_step_count \in 0 .. FRAME_STEP_DELAY
  /\ frame_step_count = 0 => (~frame_step_hold /\ frame_step_delay_count = 0)
  /\ step_track =>
       /\ step_n >= 1
       /\ step_n = 1 => (step_since <= 29 /\ frame_step_count = step_since + 1)
       /\ (step_n = 2 /\ step_since = 0) => (step_gap = 30 /\ frame_step_count = 30)

\* the 31st held tick has just emitted the second step command, at delay 0
C17_Witness ==
  /\ step_track /\ step_n = 2 /\ step_since = 0 /\ step_gap = 30
  /\ frame_step_delay = 0
  /\ <<"DoFrameStep", 0>> \in Range(emitted)

\* the step is a processed iteration in which, of the two speed hotkeys, only
\* the increase fires
IncreaseOnly ==
  /\ TickStep /\ gate' = "operational"
  /\ EdgeFired(HK("HK_INCREASE_EMULATION_SPEED"))
  /\ ~EdgeFired(HK("HK_DECREASE_EMULATION_SPEED"))

\* the speed v, in hundredths, lies in the band [0.95, 1.05]
InSnapBand(v) == v >= 95 /\ v <= 105

\* C18: the emulation speed is always > 0; an iteration in which a speed
\* action fired stores no speed of the band [0.95, 1.05] but 1.0; a decrease
\* stores 1.0 when old - 0.1 is <= 0 or in the band and old - 0.1 otherwise;
\* an increase stores 1.0 when old + 0.1 is in the band and old + 0.1
\* otherwise.
C18_SnapRule ==
  /\ [](m_EmulationSpeed > 0)
  /\ [][(TickStep /\ <<"OSD_SpeedChanged", 0>> \in Range(emitted'))
         => (InSnapBand(m_EmulationSpeed') => m_EmulationSpeed' = 100)]_vars
  /\ [][DecreaseOnly =>
         m_EmulationSpeed' =
           IF m_EmulationSpeed - 10 <= 0 \/ InSnapBand(m_EmulationSpeed - 10)
             THEN 100 ELSE m_EmulationSpeed - 10]_vars
  /\ [][IncreaseOnly =>
         m_EmulationSpeed' =
           IF InSnapBand(m_EmulationSpeed + 10) THEN 100 ELSE m_EmulationSpeed + 10]_vars

\* an increase alone has just stored 1.0
C18_Witness ==
  /\ m_EmulationSpeed = 100
  /\ status = {HK("HK_INCREASE_EMULATION_SPEED")}
  /\ <<"OSD_SpeedChanged", 0>> \in Range(emitted)

FullScreenCommand == <<"FullScreenHotkey", 0>>

\* C19: an iteration that emits the toggle-fullscreen command stops right
\* after it, in the 100 ms pause, with no later hotkey queried; while the
\* pause lasts nothing is sampled, queried or emitted; the rest of the
\* iteration takes no new sample and emits no second toggle-fullscreen
\* command, and leads to the loop test and so to the tick sleep; no other
\* step emits the command.
C19_FullscreenCooldown ==
  /\ [][(TickStep /\ FullScreenCommand \in Range(emitted')) =>
         /\ runPc' = "fs_sleep"
         /\ emitted'[Len(emitted')] = FullScreenCommand
         /\ down' \ HeadKeys = down \ HeadKeys]_vars
  /\ [][(runPc = "fs_sleep" /\ runPc' = "fs_sleep")
         => UNCHANGED << status, down, emitted >>]_vars
  /\ [][runPc = "fs_sleep" =>
         /\ status' = status
         /\ Occurrences(emitted', FullScreenCommand) = 1
         /\ runPc' \in {"fs_sleep", "while"}]_vars
  /\ [][~TickStep =>
         Occurrences(emitted', FullScreenCommand) = Occurrences(emitted, FullScreenCommand)]_vars

\* the iteration has gone on after the pause and emitted the command of a
\* hotkey that was asserted together with fullscreen
C19_Witness ==
  /\ runPc = "while"
  /\ Len(emitted) >= 2
  /\ emitted[1] = FullScreenCommand
  /\ <<"StateLoadSlot", 4>> \in Range(emitted)

\* the post-processing shader is dubois exactly when the mode is Anaglyph
ShaderConsistent == (post_shader = DUBOIS_ALGORITHM_SHADER) <=> (stereo_mode = "Anaglyph")

\* C20: whatever stereo toggles fire, an iteration that starts with the
\* shader dubois exactly when the mode is Anaglyph ends in such a state; so
\* from such a configuration every tick ends in one.
C20_ShaderConsistency == [][ShaderConsistent => ShaderConsistent']_vars

\* the SBS and the Anaglyph toggle fired on the same tick, from Off
C20_Witness ==
  /\ toggle_hist = <<{HK("HK_TOGGLE_STEREO_SBS"), HK("HK_TOGGLE_STEREO_ANAGLYPH")}>>
  /\ stereo_mode = "Anaglyph"
  /\ post_shader = DUBOIS_ALGORITHM_SHADER

====
